---------------------------- MODULE Spec2Model ----------------------------
(***************************************************************************)
(* The dashboard page of the study application                            *)
(* (src/app/dashboard/page.tsx): the component state of DashboardContent, *)
(* the local storage entries it reads and writes, its effect, its event   *)
(* handlers, its derived statistics and what it renders.                  *)
(***************************************************************************)
EXTENDS Integers, Sequences, FiniteSets, TLC

(***************************************************************************)
(* JavaScript Number arithmetic.  `(a / b) * 100` is evaluated in IEEE 754 *)
(* binary64: the quotient is rounded to a 53-bit significand (round to     *)
(* nearest, ties to even), then the product is rounded again.  A finite    *)
(* positive Number is [kind |-> "num", m |-> bits, e |-> exponent] with    *)
(* value (m read as a binary numeral, most significant bit first) * 2^e;   *)
(* m has exactly Precision bits and starts with 1.                         *)
(***************************************************************************)
Precision == 53

NaN == 0 - 1    \* marks a result of Math.round that is no integer (NaN, Infinity)

RECURSIVE BitsToNat(_)
BitsToNat(b) ==
  IF b = <<>> THEN 0
  ELSE 2 * BitsToNat(SubSeq(b, 1, Len(b) - 1)) + b[Len(b)]

\* bit q (0 = least significant) of the natural number n
BitOf(n, q) == (n \div (2 ^ q)) % 2

\* b + 1 as a binary numeral (one bit longer when b is all ones)
Increment(b) ==
  IF \A i \in 1..Len(b) : b[i] = 1
    THEN [i \in 1..(Len(b) + 1) |-> IF i = 1 THEN 1 ELSE 0]
    ELSE LET p == CHOOSE i \in 1..Len(b) :
                    b[i] = 0 /\ \A j \in (i + 1)..Len(b) : b[j] = 1
         IN [i \in 1..Len(b) |-> IF i < p THEN b[i] ELSE IF i = p THEN 1 ELSE 0]

(***************************************************************************)
(* Long multiplication and long division work on limbs of LimbBits bits,   *)
(* least significant limb first for a product, most significant first for  *)
(* a quotient.                                                             *)
(***************************************************************************)
LimbBits == 8

LimbBase == 2 ^ LimbBits

\* limb j (1 = least significant) of the binary numeral m
Limb(m, j) ==
  BitsToNat([i \in 1..LimbBits |->
               LET q == (j - 1) * LimbBits + LimbBits - i
               IN IF q < Len(m) THEN m[Len(m) - q] ELSE 0])

BitsToLimbs(m) == [j \in 1..((Len(m) + LimbBits - 1) \div LimbBits) |-> Limb(m, j)]

\* the binary numeral of the limbs ls (least significant first), no leading zero
LimbsToBits(ls) ==
  LET n == LimbBits * Len(ls)
      raw == [i \in 1..n |->
                LET q == n - i IN BitOf(ls[(q \div LimbBits) + 1], q % LimbBits)]
      first == CHOOSE i \in 1..n : raw[i] = 1 /\ \A j \in 1..(i - 1) : raw[j] = 0
  IN SubSeq(raw, first, n)

RECURSIVE MulLimbs(_, _, _)
MulLimbs(ls, k, carry) ==
  IF ls = <<>> THEN (IF carry = 0 THEN <<>> ELSE <<carry>>)
  ELSE LET v == Head(ls) * k + carry
       IN <<v % LimbBase>> \o MulLimbs(Tail(ls), k, v \div LimbBase)

\* the binary numeral of Nat(m) * k, for 1 <= k < LimbBase
MulBits(m, k) == LimbsToBits(MulLimbs(BitsToLimbs(m), k, 0))

\* n/d scaled by a power of two into [1, 2): n/d = (r.n / r.d) * 2^(r.e)
RECURSIVE Normalise(_, _, _)
Normalise(n, d, e) ==
  IF n < d THEN Normalise(2 * n, d, e - 1)
  ELSE IF n >= 2 * d THEN Normalise(n, 2 * d, e + 1)
  ELSE [n |-> n, d |-> d, e |-> e]

\* the next k limbs of the binary expansion of r/d (0 <= r < d), and what remains
RECURSIVE DivLimbs(_, _, _)
DivLimbs(r, d, k) ==
  IF k = 0 THEN [limbs |-> <<>>, rem |-> r]
  ELSE LET v == r * LimbBase
           rest == DivLimbs(v % d, d, k - 1)
       IN [limbs |-> <<v \div d>> \o rest.limbs, rem |-> rest.rem]

\* the next k * LimbBits bits of the binary expansion of r/d, and what remains
QuotientBits(r, d, k) ==
  LET q == DivLimbs(r, d, k)
  IN [bits |-> [i \in 1..(k * LimbBits) |->
                  BitOf(q.limbs[((i - 1) \div LimbBits) + 1],
                        LimbBits - 1 - ((i - 1) % LimbBits))],
      rem |-> q.rem]

\* round the exact value Nat(bits) * 2^e (+ something below the last bit when
\* sticky) to Precision bits: to nearest, ties to even.  Len(bits) >= Precision.
RoundNearestEven(bits, e, sticky) ==
  LET L == Len(bits)
      keep == SubSeq(bits, 1, Precision)
      guard == IF L > Precision THEN bits[Precision + 1] ELSE 0
      below == sticky \/ \E i \in (Precision + 2)..L : bits[i] = 1
      up == guard = 1 /\ (below \/ keep[Precision] = 1)
      m1 == IF up THEN Increment(keep) ELSE keep
  IN IF Len(m1) > Precision
       THEN [kind |-> "num", m |-> SubSeq(m1, 1, Precision), e |-> e + (L - Precision) + 1]
       ELSE [kind |-> "num", m |-> m1, e |-> e + (L - Precision)]

\* the Number a / b for integers a >= 0, b >= 0
FDiv(a, b) ==
  IF b = 0 THEN [kind |-> IF a = 0 THEN "nan" ELSE "inf", m |-> <<>>, e |-> 0]
  ELSE IF a = 0 THEN [kind |-> "zero", m |-> <<>>, e |-> 0]
  ELSE LET s == Normalise(a, b, 0)
           q == QuotientBits(s.n - s.d, s.d, (Precision \div LimbBits) + 1)
       IN RoundNearestEven(<<1>> \o q.bits, s.e - Len(q.bits), q.rem # 0)

\* the Number x * k for a Number x and an integer k >= 1
FMul(x, k) ==
  IF x.kind # "num" THEN x
  ELSE RoundNearestEven(MulBits(x.m, k), x.e, FALSE)

\* Math.round: the nearest integer, a tie going towards +Infinity (x < 2^31)
MathRound(x) ==
  IF x.kind = "zero" THEN 0
  ELSE IF x.kind # "num" THEN NaN
  ELSE LET intLen == Precision + x.e
           whole == IF intLen <= 0 THEN 0 ELSE BitsToNat(SubSeq(x.m, 1, intLen))
           half == IF intLen >= 0 /\ intLen < Precision THEN x.m[intLen + 1] ELSE 0
       IN whole + half

(***************************************************************************)
(* Values.  null, a missing storage item and "no error" are records of    *)
(* their own shape; an optional field is <<>> (undefined) or <<v>>.        *)
(* The Japanese labels of the page are written in English here:            *)
(*   PassHigh/PassMedium/PassLow  the three pass-probability labels        *)
(*   MsgStartStudying, MsgStartToday, StreakSuffix*  the streak messages   *)
(***************************************************************************)
Null == [null |-> TRUE]

NoItem == [item |-> FALSE]

NoError == [error |-> FALSE]

Undefined == <<>>

Defined(v) == <<v>>

Nicknames == {"aki", "ben"}

\* `${n}` of a natural number: its decimal digits
RECURSIVE ToDecimal(_)
ToDecimal(n) ==
  LET digits == <<"0", "1", "2", "3", "4", "5", "6", "7", "8", "9">>
  IN IF n < 10 THEN <<digits[n + 1]>>
     ELSE ToDecimal(n \div 10) \o <<digits[(n % 10) + 1]>>

\* String.prototype.includes on strings written as sequences of characters
includes(s, sub) ==
  \E i \in 1..(Len(s) - Len(sub) + 1) : SubSeq(s, i, i + Len(sub) - 1) = sub

\* the category list of @/utils/category-utils (names as character sequences)
categories ==
  << [name |-> <<"E", "t", "h", "i", "c", "s">>, totalQuestions |-> 4],
     [name |-> <<"T", "a", "x">>, totalQuestions |-> 0],
     [name |-> <<"R", "e", "g", ":", " ", "M", "o", "c", "k", " ", "1">>, totalQuestions |-> 3],
     [name |-> <<"M", "o", "c", "k", " ", "2">>, totalQuestions |-> 2] >>

CategoryNameSet == {categories[i].name : i \in 1..Len(categories)}

MockWord == <<"M", "o", "c", "k">>

\* `userProgress_${user?.nickname}` and `mockExamHistory_${user?.nickname}`
UserProgressKey(nickname) == <<"userProgress_", nickname>>

MockExamHistoryKey(nickname) == <<"mockExamHistory_", nickname>>

StorageKeys ==
  {UserProgressKey(n) : n \in Nicknames} \cup {MockExamHistoryKey(n) : n \in Nicknames}

\* the progress a new user starts with
initialProgress ==
  [ totalQuestionsAnswered |-> 0,
    correctAnswers |-> 0,
    categoryProgress |->
      [c \in CategoryNameSet |->
         LET category == CHOOSE x \in {categories[i] : i \in 1..Len(categories)} : x.name = c
         IN [totalQuestions |-> category.totalQuestions,
             answeredQuestions |-> 0,
             correctAnswers |-> 0]],
    studySessions |-> <<>>,
    incorrectQuestions |-> Defined(<<>>),
    overcomeQuestions |-> Defined(<<>>),
    currentStreak |-> 0,
    lastStudyDate |-> "",
    preferences |-> [showJapaneseInStudy |-> TRUE,
                     showJapaneseInMock |-> FALSE,
                     autoReviewIncorrect |-> TRUE,
                     notificationEnabled |-> FALSE] ]

(***************************************************************************)
(* The helpers the page imports.  Their code is not part of the page:      *)
(* validateAndFixProgress repairs a record whose correct answers exceed    *)
(* its answered questions, cleanupAllProgressData repairs every stored     *)
(* progress item, safeLocalStorage reads and writes parsed JSON items,     *)
(* useErrorHandler keeps the last error.                                   *)
(***************************************************************************)
validateAndFixProgress(p) ==
  IF p.correctAnswers > p.totalQuestionsAnswered
    THEN [p EXCEPT !.correctAnswers = p.totalQuestionsAnswered]
    ELSE p

cleanupAllProgressData(store) ==
  [k \in DOMAIN store |->
     IF k[1] = "userProgress_" /\ store[k] # NoItem
       THEN [item |-> TRUE, json |-> validateAndFixProgress(store[k].json)]
       ELSE store[k]]

getItem(store, key) == store[key]

setItem(store, key, value) == [store EXCEPT ![key] = [item |-> TRUE, json |-> value]]

handleError(s, message) == [s EXCEPT !.error = [error |-> TRUE, message |-> message]]

clearError(s) == [s EXCEPT !.error = NoError]

(***************************************************************************)
(* Derived statistics.                                                     *)
(***************************************************************************)
calculateAccuracy(p) ==
  IF p = Null \/ p.totalQuestionsAnswered = 0 THEN 0
  ELSE MathRound(FMul(FDiv(p.correctAnswers, p.totalQuestionsAnswered), 100))

\* calculatePassProbability with `>` for the first `>=`
calculatePassProbabilityStrict(p) ==
  LET accuracy == calculateAccuracy(p)
  IN IF accuracy > 70 THEN "high"
     ELSE IF accuracy >= 60 THEN "medium"
     ELSE "low"

calculatePassProbability(p) ==
  LET accuracy == calculateAccuracy(p)
  IN IF accuracy >= 70 THEN "high"
     ELSE IF accuracy >= 60 THEN "medium"
     ELSE "low"

\* getStreakStatus with `<= 3` for `< 3`
getStreakStatusOffByOne(p) ==
  IF p = Null THEN [message |-> <<"Let's start studying!">>, color |-> "text-gray-500"]
  ELSE IF p.currentStreak = 0
    THEN [message |-> <<"Let's start today!">>, color |-> "text-gray-500"]
  ELSE IF p.currentStreak <= 3
    THEN [message |-> ToDecimal(p.currentStreak) \o <<"-day streak!">>,
          color |-> "text-orange-500"]
  ELSE IF p.currentStreak < 7
    THEN [message |-> ToDecimal(p.currentStreak) \o <<"-day streak! Wonderful!">>,
          color |-> "text-blue-500"]
  ELSE [message |-> ToDecimal(p.currentStreak) \o <<"-day streak! Amazing!">>,
        color |-> "text-green-500"]

getStreakStatus(p) ==
  IF p = Null THEN [message |-> <<"Let's start studying!">>, color |-> "text-gray-500"]
  ELSE IF p.currentStreak = 0
    THEN [message |-> <<"Let's start today!">>, color |-> "text-gray-500"]
  ELSE IF p.currentStreak < 3
    THEN [message |-> ToDecimal(p.currentStreak) \o <<"-day streak!">>,
          color |-> "text-orange-500"]
  ELSE IF p.currentStreak < 7
    THEN [message |-> ToDecimal(p.currentStreak) \o <<"-day streak! Wonderful!">>,
          color |-> "text-blue-500"]
  ELSE [message |-> ToDecimal(p.currentStreak) \o <<"-day streak! Amazing!">>,
        color |-> "text-green-500"]

\* progress?.incorrectQuestions?.length || 0
getIncorrectQuestionsCount(p) ==
  IF p = Null THEN 0
  ELSE IF p.incorrectQuestions = Undefined THEN 0
  ELSE Len(p.incorrectQuestions[1])

getOvercomeQuestionsCount(p) ==
  IF p = Null THEN 0
  ELSE IF p.overcomeQuestions = Undefined THEN 0
  ELSE Len(p.overcomeQuestions[1])

\* quickActions with the review action never disabled
quickActionsNeverDisabled(p) ==
  << [title |-> "Category study", href |-> "/study?mode=category", disabled |-> FALSE],
     [title |-> "Mock exam", href |-> "/study?mode=mock", disabled |-> FALSE],
     [title |-> "Review incorrect questions",
      description |-> ToDecimal(getIncorrectQuestionsCount(p)) \o <<" questions to review">>,
      href |-> "/study/session?mode=review",
      disabled |-> FALSE],
     [title |-> "Question list", href |-> "/questions", disabled |-> FALSE] >>

quickActions(p) ==
  << [title |-> "Category study", href |-> "/study?mode=category", disabled |-> FALSE],
     [title |-> "Mock exam", href |-> "/study?mode=mock", disabled |-> FALSE],
     [title |-> "Review incorrect questions",
      description |-> ToDecimal(getIncorrectQuestionsCount(p)) \o <<" questions to review">>,
      href |-> "/study/session?mode=review",
      disabled |-> (getIncorrectQuestionsCount(p) = 0)],
     [title |-> "Question list", href |-> "/questions", disabled |-> FALSE] >>

\* the <Link> of one quick action: its target, and what its onClick does
QuickActionLink(action) ==
  [title |-> action.title,
   href |-> IF action.disabled THEN "#" ELSE action.href,
   disabled |-> action.disabled,
   preventDefault |-> action.disabled]

SelectSeq2(seq, Keep(_)) ==
  LET F[i \in 0..Len(seq)] ==
        IF i = 0 THEN <<>>
        ELSE IF Keep(seq[i]) THEN Append(F[i - 1], seq[i]) ELSE F[i - 1]
  IN F[Len(seq)]

studyCategories ==
  LET Keep(c) == ~includes(c.name, MockWord) IN SelectSeq2(categories, Keep)

mockCategories ==
  LET Keep(c) == includes(c.name, MockWord) IN SelectSeq2(categories, Keep)

\* CategoryRow without the guards against an empty category
CategoryRowUnguarded(p, category) ==
  LET data == p.categoryProgress[category.name]
      percentage == MathRound(FMul(FDiv(data.answeredQuestions, data.totalQuestions), 100))
      accuracy == MathRound(FMul(FDiv(data.correctAnswers, data.answeredQuestions), 100))
  IN [name |-> category.name, percentage |-> percentage, accuracy |-> accuracy]

\* one category's row: its progress percentage and its accuracy
CategoryRow(p, category) ==
  LET data == p.categoryProgress[category.name]
      percentage == IF data.totalQuestions > 0
                      THEN MathRound(FMul(FDiv(data.answeredQuestions, data.totalQuestions), 100))
                      ELSE 0
      accuracy == IF data.answeredQuestions > 0
                    THEN MathRound(FMul(FDiv(data.correctAnswers, data.answeredQuestions), 100))
                    ELSE 0
  IN [name |-> category.name, percentage |-> percentage, accuracy |-> accuracy]

CategorySections(p) ==
  [study |-> [i \in 1..Len(studyCategories) |-> CategoryRow(p, studyCategories[i])],
   mock |-> [i \in 1..Len(mockCategories) |-> CategoryRow(p, mockCategories[i])]]

(***************************************************************************)
(* What the component renders from its state s.                            *)
(***************************************************************************)
Render(s) ==
  IF s.loading THEN [screen |-> "spinner", text |-> "loading study data"]
  ELSE IF s.progress = Null THEN [screen |-> "spinner", text |-> "Loading..."]
  ELSE [screen |-> "dashboard",
        greeting |-> s.user,
        alert |-> (s.error # NoError),
        answered |-> s.progress.totalQuestionsAnswered,
        incorrect |-> getIncorrectQuestionsCount(s.progress),
        overcome |-> getOvercomeQuestionsCount(s.progress),
        accuracy |-> calculateAccuracy(s.progress),
        passProbability |-> calculatePassProbability(s.progress),
        streak |-> s.progress.currentStreak,
        streakColor |-> getStreakStatus(s.progress).color,
        quickActions |-> [i \in 1..Len(quickActions(s.progress)) |->
                            QuickActionLink(quickActions(s.progress)[i])],
        sections |-> CategorySections(s.progress),
        historySection |-> (Len(s.mockExamHistory) > 0),
        history |-> s.mockExamHistory]

(***************************************************************************)
(* The component.  s is its state together with local storage:             *)
(*   user, progress, loading, mockExamHistory, error  (lines 56-62)        *)
(*   storage     the local storage items, by key                           *)
(*   caught      whether the last run of each loader ended in its catch    *)
(*   loadedFor   the key each of progress and mockExamHistory was last     *)
(*               set from (<<>>: never set)                                *)
(* fault names the call of the run that throws, "none" when none does.     *)
(***************************************************************************)
NoKey == <<>>

HistoryShown == 5

\* the try block without the write of the initial progress
LoadTryNoSave(s, fault) ==
  LET s1 == [s EXCEPT !.loading = TRUE]
      userProgressKey == UserProgressKey(s.user)
  IN IF fault = "getItem" THEN [s |-> s1, thrown |-> TRUE]
     ELSE LET parsedProgress == getItem(s1.storage, userProgressKey)
          IN IF parsedProgress # NoItem
               THEN IF fault = "validateAndFixProgress" THEN [s |-> s1, thrown |-> TRUE]
                    ELSE [s |-> [s1 EXCEPT
                                   !.progress = validateAndFixProgress(parsedProgress.json),
                                   !.loadedFor.progress = userProgressKey],
                          thrown |-> FALSE]
               ELSE LET s2 == [s1 EXCEPT !.progress = initialProgress,
                                         !.loadedFor.progress = userProgressKey]
                    IN IF fault = "setItem" THEN [s |-> s2, thrown |-> TRUE]
                       ELSE [s |-> s2, thrown |-> FALSE]

\* lines 73-111, the try block: the state it leaves, and whether it threw
LoadTry(s, fault) ==
  LET s1 == [s EXCEPT !.loading = TRUE]
      userProgressKey == UserProgressKey(s.user)
  IN IF fault = "getItem" THEN [s |-> s1, thrown |-> TRUE]
     ELSE LET parsedProgress == getItem(s1.storage, userProgressKey)
          IN IF parsedProgress # NoItem
               THEN IF fault = "validateAndFixProgress" THEN [s |-> s1, thrown |-> TRUE]
                    ELSE [s |-> [s1 EXCEPT
                                   !.progress = validateAndFixProgress(parsedProgress.json),
                                   !.loadedFor.progress = userProgressKey],
                          thrown |-> FALSE]
               ELSE LET s2 == [s1 EXCEPT !.progress = initialProgress,
                                         !.loadedFor.progress = userProgressKey]
                    IN IF fault = "setItem" THEN [s |-> s2, thrown |-> TRUE]
                       ELSE [s |-> [s2 EXCEPT
                                      !.storage = setItem(s2.storage, userProgressKey,
                                                          initialProgress)],
                             thrown |-> FALSE]

\* loadUserProgress with setLoading(false) at the end of the try block, not in finally
loadUserProgressNoFinally(s, fault) ==
  LET t == LoadTry(s, fault)
  IN IF t.thrown
       THEN [handleError(t.s, "failed to load study progress")
               EXCEPT !.caught.loadUserProgress = TRUE]
       ELSE [t.s EXCEPT !.caught.loadUserProgress = FALSE, !.loading = FALSE]

loadUserProgress(s, fault) ==
  LET t == LoadTry(s, fault)
      c == IF t.thrown
             THEN [handleError(t.s, "failed to load study progress")
                     EXCEPT !.caught.loadUserProgress = TRUE]
             ELSE [t.s EXCEPT !.caught.loadUserProgress = FALSE]
  IN [c EXCEPT !.loading = FALSE]

\* Array.prototype.slice(-n) and reverse
SliceLast(list, n) ==
  IF Len(list) <= n THEN list ELSE SubSeq(list, Len(list) - n + 1, Len(list))

\* reverse left out
ReverseOmitted(list) == list

Reverse(list) == [i \in 1..Len(list) |-> list[Len(list) - i + 1]]

loadMockExamHistory(s, fault) ==
  IF fault = "getItem" THEN [s EXCEPT !.caught.loadMockExamHistory = TRUE]
  ELSE LET historyKey == MockExamHistoryKey(s.user)
           item == getItem(s.storage, historyKey)
           history == IF item # NoItem THEN item.json ELSE <<>>
       IN [s EXCEPT !.mockExamHistory = Reverse(SliceLast(history, HistoryShown)),
                    !.loadedFor.history = historyKey,
                    !.caught.loadMockExamHistory = FALSE]

(***************************************************************************)
(* The state machine.                                                      *)
(*   pc        "effect": the effect of lines 65-70 is due; then its three  *)
(*             calls in turn; "retry": the retry handler has cleared the   *)
(*             error and calls loadUserProgress next; "idle" otherwise     *)
(*   rendered  what the last commit put on the screen                      *)
(*   location  the route shown                                             *)
(*   returned  the value of the last direct call of a statistics function  *)
(***************************************************************************)
VARIABLES user, storage, progress, loading, mockExamHistory, error,
          caught, loadedFor, pc, rendered, location, returned

vars == <<user, storage, progress, loading, mockExamHistory, error,
          caught, loadedFor, pc, rendered, location, returned>>

State ==
  [user |-> user, storage |-> storage, progress |-> progress, loading |-> loading,
   mockExamHistory |-> mockExamHistory, error |-> error, caught |-> caught,
   loadedFor |-> loadedFor]

Becomes(s) ==
  /\ user' = s.user
  /\ storage' = s.storage
  /\ progress' = s.progress
  /\ loading' = s.loading
  /\ mockExamHistory' = s.mockExamHistory
  /\ error' = s.error
  /\ caught' = s.caught
  /\ loadedFor' = s.loadedFor

\* a freshly mounted component (lines 58-62) for user n over the storage store
Mounted(n, store) ==
  [user |-> n, storage |-> store, progress |-> Null, loading |-> TRUE,
   mockExamHistory |-> <<>>, error |-> NoError,
   caught |-> [loadUserProgress |-> FALSE, loadMockExamHistory |-> FALSE],
   loadedFor |-> [progress |-> NoKey, history |-> NoKey]]

NoCall == [fn |-> "none"]

Dashboard == "/dashboard"

(***************************************************************************)
(* What local storage may hold when the page opens.                        *)
(***************************************************************************)
MaxHistory == 6

StoredProgressInputs ==
  { [initialProgress EXCEPT !.totalQuestionsAnswered = 10, !.correctAnswers = 7,
                            !.currentStreak = 3,
                            !.incorrectQuestions = Defined(<<"q1", "q2">>),
                            !.overcomeQuestions = Defined(<<"q3">>)],
    [initialProgress EXCEPT !.totalQuestionsAnswered = 4, !.correctAnswers = 5,
                            !.currentStreak = 8,
                            !.incorrectQuestions = Undefined] }

ExamList(n, k) == [i \in 1..k |-> [id |-> <<n, i>>, passed |-> (i % 2 = 0)]]

\* nothing stored (-1), an empty list, one entry, as many as are shown, the most
HistoryLengths == {0 - 1, 0, 1, HistoryShown, MaxHistory}

OtherHistory == 2

\* for user n: a stored exam list of k entries or none, and OtherHistory entries for
\* everyone else; per user a stored progress item or none
StorageInputs(n) ==
  { [key \in StorageKeys |->
       IF key[1] = "userProgress_" THEN items[key[2]]
       ELSE IF key[2] # n THEN [item |-> TRUE, json |-> ExamList(key[2], OtherHistory)]
       ELSE IF k < 0 THEN NoItem
       ELSE [item |-> TRUE, json |-> ExamList(n, k)]] :
      items \in [Nicknames -> {NoItem} \cup {[item |-> TRUE, json |-> p] :
                                               p \in StoredProgressInputs}],
      k \in HistoryLengths }

Is(s) ==
  /\ user = s.user
  /\ storage = s.storage
  /\ progress = s.progress
  /\ loading = s.loading
  /\ mockExamHistory = s.mockExamHistory
  /\ error = s.error
  /\ caught = s.caught
  /\ loadedFor = s.loadedFor

Init ==
  /\ \E n \in Nicknames : \E store \in StorageInputs(n) : Is(Mounted(n, store))
  /\ pc = "effect"
  /\ rendered = Render(State)
  /\ location = Dashboard
  /\ returned = NoCall

(***************************************************************************)
(* The effect of lines 65-70, due after a mount and after a change of      *)
(* user: its three calls, in order.  The screen is committed when it ends. *)
(***************************************************************************)
Faults == {"none", "getItem", "validateAndFixProgress", "setItem"}

HistoryFaults == {"none", "getItem"}

Cleanup ==
  /\ pc = "effect"
  /\ storage' = cleanupAllProgressData(storage)
  /\ pc' = "loadUserProgress"
  /\ UNCHANGED <<user, progress, loading, mockExamHistory, error, caught, loadedFor,
                 rendered, location, returned>>

\* loadUserProgress, called by the effect (line 68) or by the retry handler (line 231)
LoadUserProgress ==
  /\ pc \in {"loadUserProgress", "retry"}
  /\ \E fault \in Faults :
       LET s == loadUserProgress(State, fault)
       IN /\ Becomes(s)
          /\ pc' = IF pc = "retry" THEN "idle" ELSE "loadMockExamHistory"
          /\ rendered' = IF pc = "retry" THEN Render(s) ELSE rendered
  /\ UNCHANGED <<location, returned>>

LoadMockExamHistory ==
  /\ pc = "loadMockExamHistory"
  /\ \E fault \in HistoryFaults :
       LET s == loadMockExamHistory(State, fault)
       IN /\ Becomes(s)
          /\ rendered' = Render(s)
  /\ pc' = "idle"
  /\ UNCHANGED <<location, returned>>

\* the auth context hands the mounted page another user: it renders, the effect is due
UserChange ==
  /\ pc = "idle"
  /\ location = Dashboard
  /\ \E n \in Nicknames \ {user} :
       /\ user' = n
       /\ rendered' = Render([State EXCEPT !.user = n])
  /\ pc' = "effect"
  /\ UNCHANGED <<storage, progress, loading, mockExamHistory, error, caught, loadedFor,
                 location, returned>>

AlertShown == rendered.screen = "dashboard" /\ rendered.alert

\* onRetry (lines 229-232): clearError(), then loadUserProgress()
Retry ==
  /\ pc = "idle"
  /\ location = Dashboard
  /\ AlertShown
  /\ error' = clearError(State).error
  /\ pc' = "retry"
  /\ UNCHANGED <<user, storage, progress, loading, mockExamHistory, caught, loadedFor,
                 rendered, location, returned>>

\* onClose (line 228)
CloseAlert ==
  /\ pc = "idle"
  /\ location = Dashboard
  /\ AlertShown
  /\ error' = clearError(State).error
  /\ rendered' = Render(clearError(State))
  /\ UNCHANGED <<user, storage, progress, loading, mockExamHistory, caught, loadedFor,
                 pc, location, returned>>

\* where a click that was not prevented takes the browser
Navigate(from, href) == IF href = "#" THEN from ELSE href

\* a click on the i-th quick action (lines 341-348): prevented, or the browser
\* follows the link; leaving the route unmounts the component
ClickQuickAction ==
  /\ pc = "idle"
  /\ location = Dashboard
  /\ rendered.screen = "dashboard"
  /\ \E i \in 1..Len(rendered.quickActions) :
       LET link == rendered.quickActions[i]
           target == IF link.preventDefault THEN location
                     ELSE Navigate(location, link.href)
       IN /\ location' = target
          /\ IF target = Dashboard
               THEN UNCHANGED <<user, storage, progress, loading, mockExamHistory, error,
                                caught, loadedFor, pc, rendered>>
               ELSE /\ Becomes(Mounted(user, storage))
                    /\ pc' = "unmounted"
                    /\ rendered' = [screen |-> "other route"]
  /\ UNCHANGED returned

\* back on the dashboard route: the component mounts again (lines 58-62)
Return ==
  /\ pc = "unmounted"
  /\ Becomes(Mounted(user, storage))
  /\ pc' = "effect"
  /\ rendered' = Render(Mounted(user, storage))
  /\ location' = Dashboard
  /\ UNCHANGED returned

Next ==
  \/ Cleanup
  \/ LoadUserProgress
  \/ LoadMockExamHistory
  \/ UserChange
  \/ Retry
  \/ CloseAlert
  \/ ClickQuickAction
  \/ Return

Spec == Init /\ [][Next]_vars

(***************************************************************************)
(* The statistics functions called directly on a progress state: no        *)
(* progress, every pair of answered and correct counts, every streak, and  *)
(* every count of one category.                                            *)
(***************************************************************************)
MaxAnswered == 40

MaxStreak == 12

MaxCategoryQuestions == 6

\* the pairs <<c, t>> with c <= t <= n
CountPairs(n) == {x \in (0..n) \X (0..n) : x[1] <= x[2]}

AccuracyInputs ==
  { [initialProgress EXCEPT !.totalQuestionsAnswered = x[2], !.correctAnswers = x[1]] :
      x \in CountPairs(MaxAnswered) }

StreakInputs == { [initialProgress EXCEPT !.currentStreak = n] : n \in 0..MaxStreak }

\* every small combination of counts in one category, and one category answered in
\* full with every number of correct answers
CategoryInputs ==
  { [initialProgress EXCEPT !.categoryProgress[name] =
       [totalQuestions |-> t, answeredQuestions |-> x[2], correctAnswers |-> x[1]]] :
      name \in CategoryNameSet, t \in 0..MaxCategoryQuestions,
      x \in CountPairs(MaxCategoryQuestions) }
  \cup
  { [initialProgress EXCEPT !.categoryProgress[name] =
       [totalQuestions |-> MaxAnswered, answeredQuestions |-> MaxAnswered,
        correctAnswers |-> c]] :
      name \in CategoryNameSet, c \in 0..MaxAnswered }

CalcInputs == {Null} \cup AccuracyInputs \cup StreakInputs \cup CategoryInputs

CalcInit ==
  /\ \E p \in CalcInputs :
       Is([Mounted(CHOOSE n \in Nicknames : TRUE, [key \in StorageKeys |-> NoItem]) EXCEPT
             !.progress = p, !.loading = FALSE])
  /\ pc = "idle"
  /\ rendered = Render(State)
  /\ location = Dashboard
  /\ returned = NoCall

CallCalculateAccuracy ==
  /\ returned' = [fn |-> "calculateAccuracy", value |-> calculateAccuracy(progress)]
  /\ UNCHANGED <<user, storage, progress, loading, mockExamHistory, error, caught,
                 loadedFor, pc, rendered, location>>

CallCalculatePassProbability ==
  /\ returned' = [fn |-> "calculatePassProbability",
                  value |-> calculatePassProbability(progress)]
  /\ UNCHANGED <<user, storage, progress, loading, mockExamHistory, error, caught,
                 loadedFor, pc, rendered, location>>

CallGetStreakStatus ==
  /\ returned' = [fn |-> "getStreakStatus", value |-> getStreakStatus(progress)]
  /\ UNCHANGED <<user, storage, progress, loading, mockExamHistory, error, caught,
                 loadedFor, pc, rendered, location>>

\* the category sections are rendered only with progress (lines 201-214)
RenderCategorySections ==
  /\ progress # Null
  /\ returned' = [fn |-> "CategorySections", value |-> CategorySections(progress)]
  /\ UNCHANGED <<user, storage, progress, loading, mockExamHistory, error, caught,
                 loadedFor, pc, rendered, location>>

CalcNext ==
  \/ CallCalculateAccuracy
  \/ CallCalculatePassProbability
  \/ CallGetStreakStatus
  \/ RenderCategorySections

SpecCalc == CalcInit /\ [][CalcNext]_vars

(***************************************************************************)
(* The claims.                                                             *)
(***************************************************************************)
Min(a, b) == IF a <= b THEN a ELSE b

Abs(x) == IF x < 0 THEN 0 - x ELSE x

\* r is an integer nearest to 100 * n / d
Nearest(r, n, d) == r \in Nat /\ 2 * Abs(100 * n - r * d) <= d

\* the number a sequence of decimal digit characters writes
RECURSIVE DecimalValue(_)
DecimalValue(ds) ==
  IF ds = <<>> THEN 0
  ELSE 10 * DecimalValue(SubSeq(ds, 1, Len(ds) - 1))
       + (CHOOSE d \in 0..9 : ToDecimal(d) = <<ds[Len(ds)]>>)

\* the entries recorded in progress.incorrectQuestions, a missing list counting as 0
RecordedIncorrect ==
  IF progress = Null THEN 0
  ELSE IF progress.incorrectQuestions = Undefined THEN 0
  ELSE Len(progress.incorrectQuestions[1])

ReviewHref == "/study/session?mode=review"

\* C1: calculateAccuracy returns 0 without progress or without answered questions,
\* and otherwise 100*c/t rounded to the nearest integer with halves rounded up,
\* floor((200*c + t) / (2*t)).
C1_AccuracyRoundsHalfUp ==
  returned.fn = "calculateAccuracy" =>
    returned.value =
      IF progress = Null THEN 0
      ELSE IF progress.totalQuestionsAnswered = 0 THEN 0
      ELSE (200 * progress.correctAnswers + progress.totalQuestionsAnswered)
             \div (2 * progress.totalQuestionsAnswered)

\* C2: calculatePassProbability gives exactly one of three levels: "high" iff the
\* rounded accuracy is at least 70, "medium" iff it is at least 60 and below 70,
\* "low" iff it is below 60; "low" without progress or without answered questions.
C2_PassProbabilityLevels ==
  returned.fn = "calculatePassProbability" =>
    LET accuracy == calculateAccuracy(progress)
    IN /\ returned.value \in {"high", "medium", "low"}
       /\ returned.value = "high" <=> accuracy >= 70
       /\ returned.value = "medium" <=> (60 <= accuracy /\ accuracy < 70)
       /\ returned.value = "low" <=> accuracy < 60
       /\ progress = Null => returned.value = "low"
       /\ (progress # Null /\ progress.totalQuestionsAnswered = 0) => returned.value = "low"

C2_Witness ==
  /\ returned.fn = "calculatePassProbability"
  /\ returned.value = "high"
  /\ progress # Null
  /\ progress.totalQuestionsAnswered = 10
  /\ progress.correctAnswers = 7

\* C3: getStreakStatus gives gray "start studying" without progress, gray "start
\* today" for a streak of 0, orange "N-day streak" for 1 or 2, blue "N-day streak,
\* wonderful" for 3 to 6, green "N-day streak, amazing" from 7 on, N the streak.
C3_StreakStatus ==
  returned.fn = "getStreakStatus" =>
    LET status == returned.value
        n == progress.currentStreak
        Says(suffix) ==
          /\ Len(status.message) >= 2
          /\ status.message[Len(status.message)] = suffix
          /\ DecimalValue(SubSeq(status.message, 1, Len(status.message) - 1)) = n
    IN IF progress = Null
         THEN status = [message |-> <<"Let's start studying!">>, color |-> "text-gray-500"]
       ELSE IF n = 0
         THEN status = [message |-> <<"Let's start today!">>, color |-> "text-gray-500"]
       ELSE IF n \in 1..2
         THEN status.color = "text-orange-500" /\ Says("-day streak!")
       ELSE IF n \in 3..6
         THEN status.color = "text-blue-500" /\ Says("-day streak! Wonderful!")
       ELSE status.color = "text-green-500" /\ Says("-day streak! Amazing!")

C3_Witness ==
  /\ returned.fn = "getStreakStatus"
  /\ progress # Null
  /\ progress.currentStreak = 11
  /\ returned.value.color = "text-green-500"

\* C4: a run of loadUserProgress that does not throw, for the user's key
\* userProgress_<nickname>: with an item stored there, progress becomes
\* validateAndFixProgress of it and storage is not written; with none, progress
\* becomes the fresh initial progress and that same value is stored under the key.
\* No stored item ever disappears, so the next run finds it and does not
\* initialise again.
C4_LoadUserProgress ==
  [][ /\ (pc \in {"loadUserProgress", "retry"} /\ ~caught'.loadUserProgress) =>
           LET key == UserProgressKey(user)
               item == storage[key]
           IN IF item # NoItem
                THEN /\ progress' = validateAndFixProgress(item.json)
                     /\ storage' = storage
                ELSE /\ progress'.totalQuestionsAnswered = 0
                     /\ progress'.correctAnswers = 0
                     /\ progress'.currentStreak = 0
                     /\ \A c \in DOMAIN progress'.categoryProgress :
                          /\ progress'.categoryProgress[c].answeredQuestions = 0
                          /\ progress'.categoryProgress[c].correctAnswers = 0
                     /\ progress'.studySessions = <<>>
                     /\ progress'.incorrectQuestions = Defined(<<>>)
                     /\ progress'.overcomeQuestions = Defined(<<>>)
                     /\ progress'.lastStudyDate = ""
                     /\ progress'.preferences =
                          [showJapaneseInStudy |-> TRUE, showJapaneseInMock |-> FALSE,
                           autoReviewIncorrect |-> TRUE, notificationEnabled |-> FALSE]
                     /\ storage' = [storage EXCEPT ![key] = [item |-> TRUE, json |-> progress']]
      /\ \A k \in StorageKeys : storage[k] # NoItem => storage'[k] # NoItem
    ]_vars

\* a run that found nothing stored has stored the initial progress
C4_Witness ==
  /\ pc = "loadMockExamHistory"
  /\ ~caught.loadUserProgress
  /\ progress = initialProgress
  /\ storage[UserProgressKey(user)] = [item |-> TRUE, json |-> initialProgress]

\* C5: whenever loadUserProgress has failed with an exception and the error was
\* handed to handleError, the page displays the error alert (until it is closed),
\* also on the first load of the page.
C5_ErrorAlertDisplayed ==
  (pc = "idle" /\ caught.loadUserProgress /\ error # NoError) => AlertShown

\* C6: the review quick action is disabled iff no incorrect question is recorded;
\* while disabled its target is "#" and a click is prevented; the other three are
\* never disabled; the page goes to /study/session?mode=review only with at least
\* one incorrect question recorded.
C6_ReviewAction ==
  /\ [](pc = "idle" /\ rendered.screen = "dashboard" =>
          /\ Len(rendered.quickActions) = 4
          /\ rendered.quickActions[3].disabled <=> RecordedIncorrect = 0
          /\ rendered.quickActions[3].disabled =>
               rendered.quickActions[3].href = "#" /\ rendered.quickActions[3].preventDefault
          /\ ~rendered.quickActions[3].disabled =>
               rendered.quickActions[3].href = ReviewHref
          /\ \A i \in {1, 2, 4} :
               /\ ~rendered.quickActions[i].disabled
               /\ ~rendered.quickActions[i].preventDefault
               /\ rendered.quickActions[i].href # "#")
  /\ [][location' = ReviewHref => (location = ReviewHref \/ RecordedIncorrect > 0)]_vars

C6_Witness == location = ReviewHref

\* C7: after loadMockExamHistory has run without throwing, mockExamHistory holds the
\* last min(k, 5) of the k entries stored under mockExamHistory_<nickname>, the last
\* stored entry first; with nothing stored it is empty and no history section is
\* rendered.
C7_RecentHistory ==
  (pc = "idle" /\ ~caught.loadMockExamHistory) =>
    LET item == storage[MockExamHistoryKey(user)]
        stored == IF item = NoItem THEN <<>> ELSE item.json
        k == Len(stored)
    IN /\ Len(mockExamHistory) = Min(k, 5)
       /\ \A i \in 1..Min(k, 5) : mockExamHistory[i] = stored[k - i + 1]
       /\ item = NoItem =>
            /\ mockExamHistory = <<>>
            /\ rendered.screen = "dashboard" => ~rendered.historySection

C7_Witness ==
  /\ pc = "idle"
  /\ ~caught.loadMockExamHistory
  /\ storage[MockExamHistoryKey(user)] # NoItem
  /\ Len(storage[MockExamHistoryKey(user)].json) = 6
  /\ Len(mockExamHistory) = 5
  /\ rendered.screen = "dashboard"
  /\ rendered.historySection

\* C8: once the effect has run for the current user, the progress and the mock exam
\* history the dashboard shows were loaded from the current user's keys.
C8_ShowsCurrentUser ==
  (pc = "idle" /\ rendered.screen = "dashboard") =>
    /\ loadedFor.progress = UserProgressKey(user)
    /\ rendered.historySection => loadedFor.history = MockExamHistoryKey(user)

\* C9: every run of loadUserProgress ends with loading false, whether it threw or
\* not; the dashboard is on the screen exactly when loading is false and progress
\* is not null, and a spinner otherwise.
C9_LoadingEnds ==
  /\ pc \in {"loadMockExamHistory", "idle"} => ~loading
  /\ pc \in {"effect", "idle"} =>
       /\ rendered.screen = "dashboard" <=> (~loading /\ progress # Null)
       /\ rendered.screen # "dashboard" => rendered.screen = "spinner"

\* a load threw on a page without progress: not loading, and a spinner
C9_Witness ==
  /\ pc = "idle"
  /\ caught.loadUserProgress
  /\ ~loading
  /\ progress = Null
  /\ rendered.screen = "spinner"

\* C10: every category row has percentage 0 for a category without questions and
\* else answered/total*100 rounded to a nearest integer, accuracy 0 without answers
\* and else correct/answered*100 rounded to a nearest integer; nothing is divided
\* by zero; every category is in exactly one section, the mock section iff its name
\* contains "Mock".
C10_CategoryRows ==
  returned.fn = "CategorySections" =>
    LET study == returned.value.study
        mock == returned.value.mock
        RowOk(row) ==
          LET data == progress.categoryProgress[row.name]
          IN /\ IF data.totalQuestions = 0 THEN row.percentage = 0
                ELSE Nearest(row.percentage, data.answeredQuestions, data.totalQuestions)
             /\ IF data.answeredQuestions = 0 THEN row.accuracy = 0
                ELSE Nearest(row.accuracy, data.correctAnswers, data.answeredQuestions)
    IN /\ \A i \in 1..Len(study) : RowOk(study[i]) /\ ~includes(study[i].name, MockWord)
       /\ \A i \in 1..Len(mock) : RowOk(mock[i]) /\ includes(mock[i].name, MockWord)
       /\ \A c \in CategoryNameSet :
            Cardinality({i \in 1..Len(study) : study[i].name = c})
              + Cardinality({i \in 1..Len(mock) : mock[i].name = c}) = 1

\* a category without questions but with answers, and a row rounded from a half
C10_Witness ==
  /\ returned.fn = "CategorySections"
  /\ \E i \in 1..Len(returned.value.study) :
       LET row == returned.value.study[i]
           data == progress.categoryProgress[row.name]
       IN /\ data.totalQuestions = 0
          /\ data.answeredQuestions = 4
          /\ data.correctAnswers = 3
          /\ row.percentage = 0
          /\ row.accuracy = 75

=============================================================================
